---- MODULE Spec2Model ----
(***************************************************************************)
(* The chat pipeline of the Jarvina backend: src/app.py (chat_endpoint,   *)
(* lifespan, normalize_text, the custom-instructions handlers),           *)
(* src/database.py (the two TinyDB logs) and src/llm_client.py.           *)
(*                                                                         *)
(* Representation.  A Python str is a sequence of one-character strings,   *)
(* so that lower(), strip(), slicing, startswith and the regular           *)
(* expressions of normalize_text are computed character by character.      *)
(* None is the one-element sequence None below, whose element is not a     *)
(* character.  Roles are plain TLA+ strings: the code only compares them.  *)
(* A stored record's 'timestamp' (datetime.now()) is left out: no branch   *)
(* of the program reads it.                                                *)
(***************************************************************************)
EXTENDS Naturals, Sequences, FiniteSets

VARIABLES gemini_client, jarvina_persona_data, custom_replies_map,
          custom_instructions, history, notes, hlog, inflight, served, last

vars == <<gemini_client, jarvina_persona_data, custom_replies_map,
          custom_instructions, history, notes, hlog, inflight, served, last>>

None == <<"<None>">>

----------------------------------------------------------------------------
(* Bounds of the model.                                                    *)

\* chat requests handled in one behaviour
MaxServed == 2
\* chat requests in flight at once (SpecConc)
MaxInflight == 2

----------------------------------------------------------------------------
(* Python string primitives.                                               *)

UpperLetters == <<"A","B","C","D","E","F","G","H","I","J","K","L","M",
                  "N","O","P","Q","R","S","T","U","V","W","X","Y","Z">>
LowerLetters == <<"a","b","c","d","e","f","g","h","i","j","k","l","m",
                  "n","o","p","q","r","s","t","u","v","w","x","y","z">>
Digits == {"0","1","2","3","4","5","6","7","8","9"}

Range(s) == {s[i] : i \in DOMAIN s}

SpaceChars == {" ", "\t", "\n", "\r"}

WordChars == Range(UpperLetters) \cup Range(LowerLetters) \cup Digits \cup {"_"}

\* str.isspace() of one character, the \s of re
IsSpace(c) == c \in SpaceChars

\* the \w of re
IsWord(c) == c \in WordChars

LowerOf ==
    [c \in Range(UpperLetters) |->
        LowerLetters[CHOOSE i \in DOMAIN UpperLetters : UpperLetters[i] = c]]

LowerChar(c) == IF c \in DOMAIN LowerOf THEN LowerOf[c] ELSE c

\* str.lower()
lower(s) == [i \in DOMAIN s |-> LowerChar(s[i])]

RECURSIVE lstrip(_)
lstrip(s) == IF s # <<>> /\ IsSpace(Head(s)) THEN lstrip(Tail(s)) ELSE s

RECURSIVE rstrip(_)
rstrip(s) ==
    IF s # <<>> /\ IsSpace(s[Len(s)]) THEN rstrip(SubSeq(s, 1, Len(s) - 1)) ELSE s

\* str.strip()
strip(s) == rstrip(lstrip(s))

\* s.startswith(p)
startswith(s, p) == Len(s) >= Len(p) /\ SubSeq(s, 1, Len(p)) = p

\* sub in s
contains(s, sub) ==
    \E i \in 1..(Len(s) + 1) :
        i + Len(sub) - 1 <= Len(s) /\ SubSeq(s, i, i + Len(sub) - 1) = sub

\* s[n:]
slice_from(s, n) == SubSeq(s, n + 1, Len(s))

\* re.sub(r'[^\w\s]', '', text)
RECURSIVE remove_punctuation(_)
remove_punctuation(s) ==
    IF s = <<>> THEN <<>>
    ELSE IF IsWord(Head(s)) \/ IsSpace(Head(s))
         THEN <<Head(s)>> \o remove_punctuation(Tail(s))
         ELSE remove_punctuation(Tail(s))

\* re.sub(r'\s+', ' ', text)
RECURSIVE collapse_spaces(_)
collapse_spaces(s) ==
    IF s = <<>> THEN <<>>
    ELSE IF IsSpace(Head(s))
         THEN <<" ">> \o collapse_spaces(lstrip(Tail(s)))
         ELSE <<Head(s)>> \o collapse_spaces(Tail(s))

normalize_text(text) == strip(collapse_spaces(remove_punctuation(lower(text))))

----------------------------------------------------------------------------
(* Literal texts of src/app.py.                                            *)

CLEAR_HISTORY == <<"c","l","e","a","r"," ","h","i","s","t","o","r","y">>
CLEAR_NOTES == <<"c","l","e","a","r"," ","n","o","t","e","s">>
SAVE_PREFIX == <<"s","a","v","e",":">>
CURRENT_TIME == <<"c","u","r","r","e","n","t"," ","t","i","m","e">>
WHAT_TIME_IS_IT == <<"w","h","a","t"," ","t","i","m","e"," ","i","s"," ","i","t">>

HISTORY_CLEARED == <<"C","h","a","t"," ","h","i","s","t","o","r","y"," ","h","a","s",
                     " ","b","e","e","n"," ","c","l","e","a","r","e","d",".">>
NOTES_CLEARED == <<"A","l","l"," ","s","a","v","e","d"," ","n","o","t","e","s"," ",
                   "h","a","v","e"," ","b","e","e","n"," ","c","l","e","a","r","e",
                   "d",".">>
SAVE_GUIDANCE == <<"P","l","e","a","s","e"," ","p","r","o","v","i","d","e"," ","c",
                   "o","n","t","e","n","t"," ","a","f","t","e","r"," ","'","s","a",
                   "v","e",":","'"," ","t","o"," ","s","a","v","e"," ","a"," ","n",
                   "o","t","e",".">>
NOT_INITIALIZED == <<"G","e","m","i","n","i","C","l","i","e","n","t"," ","n","o","t",
                     " ","i","n","i","t","i","a","l","i","z","e","d",".">>
NO_EMOJIS == <<"C","R","I","T","I","C","A","L"," ","I","N","S","T","R","U","C",
               "T","I","O","N",":"," ","D","O"," ","N","O","T"," ","u","s","e",
               " ","e","m","o","j","i","s",".">>
DEFAULT_PERSONA == <<"Y","o","u"," ","a","r","e"," ","J","a","r","v","i","n","a",",",
                     " ","a"," ","p","e","r","s","o","n","a","l"," ","A","I"," ","a",
                     "s","s","i","s","t","a","n","t",".">>
INSTRUCTIONS_MARKER == <<"S","Y","S","T","E","M"," ","I","N","S","T","R","U","C","T","I",
                         "O","N","S",":","\n">>
ACKNOWLEDGEMENT == <<"U","n","d","e","r","s","t","o","o","d","."," ","I"," ","w","i",
                     "l","l"," ","f","o","l","l","o","w"," ","t","h","e","s","e"," ",
                     "i","n","s","t","r","u","c","t","i","o","n","s",".">>

\* f"Got it. I've saved the note: \"{note_content}\""
SAVED_PREFIX == <<"G","o","t"," ","i","t","."," ","I","'","v","e"," ","s","a","v",
                  "e","d"," ","t","h","e"," ","n","o","t","e",":"," ","\"">>

saved_note_response(note_content) == SAVED_PREFIX \o note_content \o <<"\"">>

----------------------------------------------------------------------------
(* datetime.now().strftime('%I:%M:%S %p on %A, %B %d, %Y').  A datetime is *)
(* a record of its fields; the weekday and month names come with it.       *)

DigitChars == <<"0","1","2","3","4","5","6","7","8","9">>

TwoDigits(n) == <<DigitChars[((n \div 10) % 10) + 1], DigitChars[(n % 10) + 1]>>

FourDigits(n) == TwoDigits(n \div 100) \o TwoDigits(n % 100)

\* %I: the hour of a 12-hour clock
Hour12(h) == IF h % 12 = 0 THEN 12 ELSE h % 12

strftime(dt) ==
    TwoDigits(Hour12(dt.hour)) \o <<":">> \o TwoDigits(dt.minute) \o <<":">>
    \o TwoDigits(dt.second) \o <<" ">> \o (IF dt.hour < 12 THEN <<"A","M">> ELSE <<"P","M">>)
    \o <<" ","o","n"," ">> \o dt.weekday \o <<","," ">> \o dt.month \o <<" ">> \o TwoDigits(dt.day)
    \o <<","," ">> \o FourDigits(dt.year)

TIME_PREFIX == <<"T","h","e"," ","c","u","r","r","e","n","t"," ","t","i","m","e",
                 " ","i","s"," ">>

\* f"The current time is {current_time_str}."
time_response(dt) == TIME_PREFIX \o strftime(dt) \o <<".">>

----------------------------------------------------------------------------
(* src/database.py.  db is the pair of logs a handler works on, with the   *)
(* writes it has made so far, in order (trace).                            *)

Write(log, op, role, content) ==
    [log |-> log, op |-> op, role |-> role, content |-> content]

\* isinstance(content, str)
IsStr(x) == x # None

add_conversation(db, role, content) ==
    IF ~IsStr(content) THEN db
    ELSE [db EXCEPT
            !.history = Append(@, [role |-> role, content |-> content]),
            !.trace = Append(@, Write("history", "insert", role, content))]

add_note(db, content) ==
    IF ~IsStr(content) THEN db
    ELSE [db EXCEPT
            !.notes = Append(@, [note |-> content]),
            !.trace = Append(@, Write("notes", "insert", "", content))]

\* variant: a truncate that leaves the newest record behind
clear_history_database_keeps_last(db) ==
    [db EXCEPT !.history = IF @ = <<>> THEN <<>> ELSE <<@[Len(@)]>>,
               !.trace = Append(@, Write("history", "truncate", "", <<>>))]

clear_history_database(db) ==
    [db EXCEPT !.history = <<>>,
               !.trace = Append(@, Write("history", "truncate", "", <<>>))]

clear_notes_database(db) ==
    [db EXCEPT !.notes = <<>>,
               !.trace = Append(@, Write("notes", "truncate", "", <<>>))]

----------------------------------------------------------------------------
(* src/llm_client.py.  backend is what the Gemini call does: it returns a  *)
(* text (ok) or raises; generate_content re-raises as RuntimeError.        *)

GENERATION_FAILED == <<"A","I"," ","g","e","n","e","r","a","t","i","o","n"," ","f","a",
                       "i","l","e","d",":"," ">>

\* variant: the failure is swallowed and returned as text
generate_content_swallows(backend) ==
    [ok |-> TRUE, text |-> IF backend.ok THEN backend.text ELSE GENERATION_FAILED]

generate_content(backend) ==
    IF backend.ok THEN [ok |-> TRUE, text |-> backend.text]
    ELSE [ok |-> FALSE, text |-> GENERATION_FAILED \o backend.text]

----------------------------------------------------------------------------
(* src/app.py: lifespan.  The environment is whether GEMINI_API_KEY is     *)
(* set and what memory.json holds (exists = FALSE: absent or undecodable). *)
(* A persona dict {"name": n} is represented by n.                         *)

\* GeminiClient(): ValueError without the key, caught by lifespan
init_gemini_client(api_key_set) == IF api_key_set THEN "GeminiClient" ELSE "None"

\* custom_replies_map[key] = response
put(map, key, response) ==
    [k \in DOMAIN map \cup {key} |-> IF k = key THEN response ELSE map[k]]

RECURSIVE add_phrases(_, _, _)
add_phrases(map, phrases, response) ==
    IF phrases = <<>> THEN map
    ELSE add_phrases(put(map, normalize_text(Head(phrases)), response),
                     Tail(phrases), response)

RECURSIVE load_custom_replies(_, _)
load_custom_replies(map, entries) ==
    IF entries = <<>> THEN map
    ELSE LET e == Head(entries)
             loaded == IF e.response # None /\ e.response # <<>> /\ e.phrases # <<>>
                       THEN add_phrases(map, e.phrases, e.response)
                       ELSE map
         IN load_custom_replies(loaded, Tail(entries))

EmptyMap == [k \in {} |-> <<>>]

lifespan_persona(memory) == IF memory.exists THEN memory.persona_data ELSE None

lifespan_replies(memory) ==
    IF memory.exists THEN load_custom_replies(EmptyMap, memory.custom_replies)
    ELSE EmptyMap

----------------------------------------------------------------------------
(* src/app.py: the custom-instructions file.  The file is None when it is  *)
(* absent or undecodable, else the text under its "instructions" key.      *)

load_custom_instructions_from_file(file) == IF file = None THEN <<>> ELSE file

----------------------------------------------------------------------------
(* src/app.py: chat_endpoint.                                              *)

\* variant: the check is absent
client_missing_never(client) == FALSE

\* if not gemini_client
client_missing(client) == client = "None"

\* variant: the utterance is trimmed before it is kept
prompt_or_empty_stripped(prompt) == IF prompt = None THEN <<>> ELSE strip(prompt)

\* user_prompt = chat_request.prompt or ""
prompt_or_empty(prompt) == IF prompt = None \/ prompt = <<>> THEN <<>> ELSE prompt

\* variant: commands are matched on the raw utterance
command_key_raw(user_prompt) == user_prompt

\* normalized_prompt = user_prompt.lower().strip()
command_key(user_prompt) == strip(lower(user_prompt))

\* note_content = user_prompt[len("save:"):].strip()
note_content_of(user_prompt) == strip(slice_from(user_prompt, Len(SAVE_PREFIX)))

is_time_query(normalized_prompt) ==
    contains(normalized_prompt, CURRENT_TIME) \/ contains(normalized_prompt, WHAT_TIME_IS_IT)

\* json.dumps of the persona dict
json_dumps(persona) == <<"{","\"","n","a","m","e","\"",":"," ","\"">> \o persona \o <<"\"","}">>

CUSTOM_LABEL == <<"U","s","e","r","'","s"," ","C","u","s","t","o","m"," ","I","n",
                  "s","t","r","u","c","t","i","o","n","s",":"," ">>

\* "\n".join(system_content_parts)
system_message_text(file, persona) ==
    LET custom == load_custom_instructions_from_file(file)
    IN NO_EMOJIS
       \o (IF custom # <<>> THEN <<"\n">> \o CUSTOM_LABEL \o custom ELSE <<>>)
       \o <<"\n">>
       \o (IF persona # None /\ persona # <<>> THEN json_dumps(persona) ELSE DEFAULT_PERSONA)

\* {"role": role, "parts": [{"text": text}]}
Turn(role, text) == [role |-> role, text |-> text]

\* the loop over chat_request.messages (None and [] are both skipped: <<>>)
RECURSIVE history_turns(_)
history_turns(messages) ==
    IF messages = <<>> THEN <<>>
    ELSE LET message == Head(messages)
             role == IF message.role = "assistant" THEN "model" ELSE "user"
         IN (IF message.content # None /\ message.content # <<>>
             THEN <<Turn(role, message.content)>>
             ELSE <<>>) \o history_turns(Tail(messages))

\* variant: the utterance is appended whatever the last turn is
should_append_prompt_always(formatted, user_prompt) == TRUE

\* should_append_prompt: False when the last turn's text is the utterance
should_append_prompt(formatted, user_prompt) ==
    ~(formatted # <<>> /\ formatted[Len(formatted)].text = user_prompt)

\* gemini_formatted_messages
assemble(file, persona, messages, user_prompt) ==
    LET formatted ==
            << Turn("user", INSTRUCTIONS_MARKER \o system_message_text(file, persona)),
               Turn("model", ACKNOWLEDGEMENT) >>
            \o history_turns(messages)
    IN IF user_prompt # <<>> /\ should_append_prompt(formatted, user_prompt)
       THEN Append(formatted, Turn("user", user_prompt))
       ELSE formatted

Outcome(db, status_code, response, path, llm_called, llm_failed, turns) ==
    [db |-> db, status_code |-> status_code, response |-> response, path |-> path,
     llm_called |-> llm_called, llm_failed |-> llm_failed, turns |-> turns]

Handled(db, response_text, path) ==
    Outcome(add_conversation(db, "assistant", response_text), 200, response_text,
            path, FALSE, FALSE, <<>>)

\* the LLM generation block
generate(file, persona, db, request, user_prompt, backend) ==
    LET formatted == assemble(file, persona, request.messages, user_prompt)
        result == generate_content(backend)
    IN IF result.ok
       THEN Outcome(add_conversation(db, "assistant", result.text), 200, result.text,
                    "generated", TRUE, ~backend.ok, formatted)
       ELSE Outcome(db, 500, result.text, "generation_failed", TRUE, ~backend.ok,
                    formatted)

chat_endpoint(client, persona, replies, file, db0, request, backend, now) ==
    IF client_missing(client)
    THEN Outcome(db0, 500, NOT_INITIALIZED, "rejected", FALSE, FALSE, <<>>)
    ELSE
    LET user_prompt == prompt_or_empty(request.prompt)
        db == IF user_prompt # <<>> THEN add_conversation(db0, "user", user_prompt)
              ELSE db0
        normalized_prompt == command_key(user_prompt)
        note_content == note_content_of(user_prompt)
        normalized_for_reply_map == normalize_text(user_prompt)
    IN IF normalized_prompt = CLEAR_HISTORY
       THEN Handled(clear_history_database(db), HISTORY_CLEARED, "clear_history")
       ELSE IF normalized_prompt = CLEAR_NOTES
       THEN Handled(clear_notes_database(db), NOTES_CLEARED, "clear_notes")
       ELSE IF startswith(normalized_prompt, SAVE_PREFIX)
       THEN IF note_content # <<>>
            THEN Handled(add_note(db, note_content),
                         saved_note_response(note_content), "save_note")
            ELSE Handled(db, SAVE_GUIDANCE, "save_guidance")
       ELSE IF is_time_query(normalized_prompt)
       THEN Handled(db, time_response(now), "current_time")
       ELSE IF normalized_for_reply_map \in DOMAIN replies
       THEN Handled(db, replies[normalized_for_reply_map], "custom_reply")
       ELSE generate(file, persona, db, request, user_prompt, backend)

----------------------------------------------------------------------------
(* Inputs.                                                                 *)

Message(role, content) == [role |-> role, content |-> content]

Request(prompt, messages) == [prompt |-> prompt, messages |-> messages]

HELLO == <<"h","e","l","l","o">>
HI == <<"H","i","!">>
HELLO_THERE == <<"H","e","l","l","o"," ","t","h","e","r","e",".">>
CLEAR_HISTORY_CASED == <<"C","l","e","a","r"," ","H","i","s","t","o","r","y"," ">>
SAVE_MILK == <<"s","a","v","e",":"," ","m","i","l","k">>
SAVE_MILK_CASED == <<"S","a","v","e",":","m","i","l","k">>
SAVE_MILK_INDENTED == <<" ","s","a","v","e",":"," ","m","i","l","k">>
SAVE_BLANK == <<"s","a","v","e",":"," "," "," ">>
SAVE_INDENTED_BLANK == <<" ","s","a","v","e",":">>
WHAT_TIME_QUESTION == <<"W","h","a","t"," ","t","i","m","e"," ","i","s"," ","i","t","?">>
QUOTA_ERROR == <<"q","u","o","t","a">>
GOOD_DAY == <<"g","o","o","d"," ","d","a","y">>
HI_UPPER == <<"H","I">>
HEY == <<"H","e","y",".">>
BE_BRIEF == <<"B","e"," ","b","r","i","e","f",".">>
JARVINA == <<"J","a","r","v","i","n","a">>

\* utterances one of the built-in commands claims
CommandUtterances ==
    { CLEAR_HISTORY, CLEAR_HISTORY_CASED, CLEAR_NOTES, SAVE_MILK, SAVE_MILK_CASED,
      SAVE_MILK_INDENTED, SAVE_BLANK, SAVE_INDENTED_BLANK, CURRENT_TIME, WHAT_TIME_QUESTION }

\* utterances no command claims
OtherUtterances == { HELLO, HI, ACKNOWLEDGEMENT }

Histories ==
    { <<>>,
      << Message("user", HELLO) >>,
      << Message("user", HI), Message("assistant", HELLO) >>,
      << Message("user", HELLO), Message("assistant", <<>>), Message("system", None) >>,
      << Message("system", HI), Message("assistant", HELLO_THERE) >> }

Requests ==
    { Request(u, <<>>) : u \in CommandUtterances }
    \cup { Request(u, h) : u \in OtherUtterances, h \in Histories }
    \cup { Request(u, h) : u \in {None, <<>>}, h \in {<<>>, << Message("user", HELLO) >>} }

\* the requests SpecConc races against one another
RaceRequests ==
    { Request(CLEAR_HISTORY, <<>>), Request(SAVE_MILK, <<>>),
      Request(HELLO, <<>>), Request(HI, <<>>) }

Backends == { [ok |-> TRUE, text |-> HELLO_THERE], [ok |-> FALSE, text |-> QUOTA_ERROR] }

Clock ==
    { [hour |-> 9, minute |-> 5, second |-> 7, weekday |-> <<"M","o","n","d","a","y">>,
       month |-> <<"N","o","v","e","m","b","e","r">>, day |-> 3, year |-> 2025],
      [hour |-> 12, minute |-> 30, second |-> 0, weekday |-> <<"F","r","i","d","a","y">>,
       month |-> <<"M","a","r","c","h">>, day |-> 14, year |-> 2025] }

Reply(response, phrases) == [response |-> response, phrases |-> phrases]

TABLE_REPLY == <<"F","r","o","m"," ","t","h","e"," ","t","a","b","l","e",".">>

Memories ==
    { [exists |-> FALSE, persona_data |-> None, custom_replies |-> <<>>],
      [exists |-> TRUE, persona_data |-> JARVINA,
       custom_replies |-> << Reply(HELLO_THERE, << HI, GOOD_DAY >>),
                             Reply(None, << HELLO >>),
                             Reply(HEY, << HI_UPPER >>) >>],
      [exists |-> TRUE, persona_data |-> None,
       custom_replies |-> << Reply(TABLE_REPLY,
                                   << CLEAR_HISTORY, CLEAR_HISTORY_CASED, CLEAR_NOTES,
                                      SAVE_MILK, SAVE_MILK_CASED, SAVE_MILK_INDENTED,
                                      SAVE_BLANK, SAVE_INDENTED_BLANK, CURRENT_TIME,
                                      WHAT_TIME_QUESTION >>) >>] }

Instructions == { BE_BRIEF }

----------------------------------------------------------------------------
(* The state machine.  chat_endpoint is an async def with no await in its  *)
(* body: the event loop runs each call to completion, so a call is one     *)
(* step.  hlog is the history log's writes in the order they were made;    *)
(* last describes the chat request handled most recently.                  *)

NoRequest ==
    [request |-> Request(<<>>, <<>>), status_code |-> 0, response |-> <<>>,
     path |-> "none", trace |-> <<>>, llm_called |-> FALSE, llm_failed |-> FALSE,
     turns |-> <<>>, concurrent |-> 0]

Init ==
    \E api_key_set \in BOOLEAN, memory \in Memories :
        /\ gemini_client = init_gemini_client(api_key_set)
        /\ jarvina_persona_data = lifespan_persona(memory)
        /\ custom_replies_map = lifespan_replies(memory)
        /\ custom_instructions = None
        /\ history = <<>>
        /\ notes = <<>>
        /\ hlog = <<>>
        /\ inflight = <<>>
        /\ served = 0
        /\ last = NoRequest

IsHistoryWrite(w) == w.log = "history"

\* one call of chat_endpoint, with `others` further requests in flight
Serve(request, backend, now, others) ==
    \E out \in { chat_endpoint(gemini_client, jarvina_persona_data, custom_replies_map,
                                custom_instructions,
                                [history |-> history, notes |-> notes, trace |-> <<>>],
                                request, backend, now) } :
       /\ history' = out.db.history
       /\ notes' = out.db.notes
       /\ hlog' = hlog \o SelectSeq(out.db.trace, IsHistoryWrite)
       /\ served' = served + 1
       /\ last' = [request |-> request, status_code |-> out.status_code,
                   response |-> out.response, path |-> out.path,
                   trace |-> out.db.trace, llm_called |-> out.llm_called,
                   llm_failed |-> out.llm_failed, turns |-> out.turns,
                   concurrent |-> others]
       /\ UNCHANGED <<gemini_client, jarvina_persona_data, custom_replies_map,
                      custom_instructions>>

\* POST /api/chat/mistral/, requests handled one after the other
ChatRequest ==
    /\ served < MaxServed
    /\ \E request \in Requests, backend \in Backends, now \in Clock :
           Serve(request, backend, now, 0)
    /\ UNCHANGED inflight

\* POST /api/save_custom_instructions
SaveCustomInstructions ==
    /\ \E instructions \in Instructions : custom_instructions' = instructions
    /\ UNCHANGED <<gemini_client, jarvina_persona_data, custom_replies_map,
                   history, notes, hlog, inflight, served, last>>

Next == ChatRequest \/ SaveCustomInstructions

Spec == Init /\ [][Next]_vars

\* a chat request arrives while others are still in flight
Receive ==
    /\ Len(inflight) < MaxInflight
    /\ served + Len(inflight) < MaxServed
    /\ \E request \in RaceRequests : inflight' = Append(inflight, request)
    /\ UNCHANGED <<gemini_client, jarvina_persona_data, custom_replies_map,
                   custom_instructions, history, notes, hlog, served, last>>

\* the event loop runs the handler of any request in flight
Dispatch ==
    \E i \in DOMAIN inflight, backend \in Backends, now \in Clock :
        /\ Serve(inflight[i], backend, now, Len(inflight) - 1)
        /\ inflight' = SubSeq(inflight, 1, i - 1) \o SubSeq(inflight, i + 1, Len(inflight))

NextConc == Receive \/ Dispatch

SpecConc == Init /\ [][NextConc]_vars

----------------------------------------------------------------------------
(* Vocabulary of the properties.  These are stated from the request and    *)
(* the logs, not from the handler's own intermediate values.               *)

\* the utterance of the request handled most recently ("" when absent)
Utterance == IF last.request.prompt = None THEN <<>> ELSE last.request.prompt

\* a chat request has been handled and got past the client check
Accepted == last.path \notin {"none", "rejected"}

UserEntry(u) == Write("history", "insert", "user", u)

AssistantEntry(text) == Write("history", "insert", "assistant", text)

IsNotesWrite(w) == w.log = "notes"

IsUserInsert(w) == w.log = "history" /\ w.op = "insert" /\ w.role = "user"

\* the utterance with case folded and surrounding whitespace removed
Folded(u) == strip(lower(u))

\* the "save:" command claims the utterance
IsSaveUtterance(u) == startswith(Folded(u), SAVE_PREFIX)

\* the text that follows the "save:" prefix, surrounding whitespace removed
ContentAfterPrefix(u) == strip(slice_from(lstrip(u), Len(SAVE_PREFIX)))

IsTimeUtterance(u) ==
    contains(Folded(u), CURRENT_TIME) \/ contains(Folded(u), WHAT_TIME_IS_IT)

HasContent(message) == message.content # None /\ message.content # <<>>

\* the caller's history as turns: non-empty ones, in order, assistant -> model
CallerTurns(messages) ==
    LET kept == SelectSeq(messages, HasContent)
    IN [i \in 1..Len(kept) |->
           Turn(IF kept[i].role = "assistant" THEN "model" ELSE "user", kept[i].content)]

RECURSIVE Serial(_, _)
\* the log after the writes of w, one at a time, starting from log
Serial(log, w) ==
    IF w = <<>> THEN log
    ELSE Serial(IF Head(w).op = "truncate" THEN <<>>
                ELSE Append(log, [role |-> Head(w).role, content |-> Head(w).content]),
                Tail(w))

----------------------------------------------------------------------------
(* C1.  As claimed: with the client missing, a built-in command is still   *)
(* handled (a response is returned and its log writes are made).           *)
C1_CommandsSurviveMissingClient ==
    (gemini_client = "None" /\ last.path # "none" /\ Utterance \in CommandUtterances)
        => (last.status_code = 200 /\ last.trace # <<>>)

(* C1, amended.  With the client missing, every chat request, a command or *)
(* a canned-reply match included, fails with the "not initialized" error,  *)
(* writes to no log and does not call the language model.                  *)
C1_MissingClientRejectsAll ==
    (gemini_client = "None" /\ last.path # "none")
        => /\ last.status_code = 500
           /\ last.response = NOT_INITIALIZED
           /\ last.trace = <<>>
           /\ ~last.llm_called
           /\ history = <<>> /\ notes = <<>> /\ hlog = <<>>

C1_Witness ==
    gemini_client = "None" /\ Utterance = CLEAR_HISTORY /\ last.status_code = 500

(* C2.  A request with a non-empty utterance whose language-model call     *)
(* fails ends in failure, its only write is the 'user' entry of the        *)
(* utterance, which is the last entry of the history log, and it appends   *)
(* no 'assistant' entry.                                                   *)
C2_FailedGenerationKeepsUserEntry ==
    (last.llm_failed /\ Utterance # <<>>)
        => /\ last.status_code = 500
           /\ last.trace = << UserEntry(Utterance) >>
           /\ history # <<>>
           /\ history[Len(history)] = [role |-> "user", content |-> Utterance]

C2_Witness ==
    last.llm_failed /\ Utterance = HELLO /\ last.status_code = 500 /\ Len(history) > 1

(* C3.  As claimed: after a completed "clear history" request the history  *)
(* log has zero entries and the notes log is what it was.                  *)
C3_ClearHistoryLeavesNothing ==
    [][(served' = served + 1 /\ last'.request.prompt = CLEAR_HISTORY
        /\ last'.status_code = 200)
       => (history' = <<>> /\ notes' = notes)]_vars

(* C3, amended.  After a completed "clear history" request the history log *)
(* holds exactly one entry, the 'assistant' entry of the confirmation, and *)
(* the notes log is what it was before the request.                        *)
C3_ClearHistoryLeavesConfirmation ==
    [][(served' = served + 1 /\ last'.request.prompt = CLEAR_HISTORY
        /\ last'.status_code = 200)
       => (/\ history' = << [role |-> "assistant", content |-> HISTORY_CLEARED] >>
           /\ notes' = notes)]_vars

C3_Witness ==
    /\ Utterance = CLEAR_HISTORY /\ last.status_code = 200
    /\ served > 1 /\ Len(hlog) > 3 /\ notes # <<>>

(* C4.  A "save:" utterance with content after the prefix appends exactly  *)
(* one note, whose content is the text after the prefix, stripped.         *)
C4_SavedNoteIsContentAfterPrefix ==
    (last.status_code = 200 /\ IsSaveUtterance(Utterance)
     /\ ContentAfterPrefix(Utterance) # <<>>)
        => SelectSeq(last.trace, IsNotesWrite)
               = << Write("notes", "insert", "", ContentAfterPrefix(Utterance)) >>

(* C5.  A command answers its utterance whatever the reply table holds:    *)
(* "clear history" truncates the history log and returns its confirmation, *)
(* "clear notes", "save:" and the time questions return their own          *)
(* responses, and none of them is answered from the table.                 *)
C5_CommandsPrecedeReplies ==
    Accepted =>
        /\ (Folded(Utterance) = CLEAR_HISTORY
               => /\ last.response = HISTORY_CLEARED
                  /\ \E i \in DOMAIN last.trace :
                         last.trace[i] = Write("history", "truncate", "", <<>>))
        /\ (Folded(Utterance) = CLEAR_NOTES
               => /\ last.response = NOTES_CLEARED
                  /\ \E i \in DOMAIN last.trace :
                         last.trace[i] = Write("notes", "truncate", "", <<>>))
        /\ (IsSaveUtterance(Utterance)
               => \/ last.response = SAVE_GUIDANCE
                  \/ startswith(last.response, SAVED_PREFIX))
        /\ (IsTimeUtterance(Utterance)
               => startswith(last.response, TIME_PREFIX))
        /\ (\/ Folded(Utterance) \in {CLEAR_HISTORY, CLEAR_NOTES}
            \/ IsSaveUtterance(Utterance)
            \/ IsTimeUtterance(Utterance))
               => /\ last.path # "custom_reply"
                  /\ ~last.llm_called
                  /\ (normalize_text(Utterance) \in DOMAIN custom_replies_map
                         => last.response # custom_replies_map[normalize_text(Utterance)])

C5_Witness ==
    /\ Utterance = CLEAR_HISTORY
    /\ normalize_text(Utterance) \in DOMAIN custom_replies_map
    /\ last.response = HISTORY_CLEARED
    /\ history = << [role |-> "assistant", content |-> HISTORY_CLEARED] >>

\* what C6 says of the request handled most recently
OneUserEntryFirst ==
    IF Utterance # <<>>
    THEN /\ last.trace # <<>>
         /\ last.trace[1] = UserEntry(Utterance)
         /\ Len(SelectSeq(last.trace, IsUserInsert)) = 1
    ELSE SelectSeq(last.trace, IsUserInsert) = <<>>

(* C6.  As claimed: every chat request with a non-empty utterance appends  *)
(* exactly one 'user' entry, as its first write.                           *)
C6_EveryRequestLogsUser == last.path # "none" => OneUserEntryFirst

(* C6, amended.  Every chat request that gets past the client check and    *)
(* has a non-empty utterance appends exactly one 'user' entry with the     *)
(* utterance, as its first write; one with an empty utterance, and one     *)
(* rejected for the missing client, appends none.                          *)
C6_AcceptedRequestLogsUser ==
    /\ Accepted => OneUserEntryFirst
    /\ last.path = "rejected" => last.trace = <<>>

C6_Witness ==
    /\ last.path = "custom_reply" /\ Utterance = HI
    /\ last.trace = << UserEntry(HI), AssistantEntry(HEY) >>

(* C7.  When the assembler runs with a non-empty utterance, the turns      *)
(* start with the instruction pair and at least one real turn follows.     *)
C7_PairThenRealTurn ==
    (last.llm_called /\ Utterance # <<>>)
        => /\ Len(last.turns) >= 3
           /\ last.turns[1].role = "user"
           /\ startswith(last.turns[1].text, INSTRUCTIONS_MARKER)
           /\ last.turns[2] = Turn("model", ACKNOWLEDGEMENT)

(* C8.  The assembled turns are the instruction pair, then the caller's    *)
(* history turns, then the utterance as a final 'user' turn exactly when   *)
(* it is non-empty and differs from the text of the last turn so far.      *)
C8_FinalTurnNotRepeated ==
    last.llm_called =>
        /\ Len(last.turns) >= 2
        /\ LET sofar == SubSeq(last.turns, 1, 2) \o CallerTurns(last.request.messages)
           IN last.turns =
                  IF Utterance # <<>> /\ sofar[Len(sofar)].text # Utterance
                  THEN Append(sofar, Turn("user", Utterance))
                  ELSE sofar

C8_Witness ==
    /\ last.llm_called /\ Utterance = HELLO
    /\ last.request.messages = << Message("user", HELLO) >>
    /\ Len(last.turns) = 3 /\ last.turns[3] = Turn("user", HELLO)

(* C9.  A "save:" utterance with nothing after the prefix writes no note,  *)
(* returns the guidance response, persists it as the 'assistant' entry     *)
(* and does not call the language model.                                   *)
C9_EmptySaveWritesNoNote ==
    (last.status_code = 200 /\ IsSaveUtterance(Utterance)
     /\ ContentAfterPrefix(Utterance) = <<>>)
        => /\ SelectSeq(last.trace, IsNotesWrite) = <<>>
           /\ last.response = SAVE_GUIDANCE
           /\ last.trace[Len(last.trace)] = AssistantEntry(SAVE_GUIDANCE)
           /\ ~last.llm_called

====
